---- MODULE Spec2Model ----
(***************************************************************************)
(* Model of pytorch3d/implicitron/evaluation/evaluator.py:                 *)
(*   ImplicitronEvaluator.run, _dump_to_json and _get_eval_frame_data.     *)
(*                                                                         *)
(* Python values are modelled as follows.                                  *)
(*   Optional[x]   : <<>> for None, <<x>> for a present value.             *)
(*   float element : one of the strings "0.0", "1.0", "inf", "nan".        *)
(*   str           : the sequence of its characters.                       *)
(*   tensor        : a sequence of frames (the batch dimension), each      *)
(*                   frame a sequence of elements (all other dimensions).  *)
(*   object heap   : tensors and FrameData objects live in a heap and are  *)
(*                   named by references, so that copying and aliasing     *)
(*                   are distinguishable.                                  *)
(***************************************************************************)
EXTENDS Integers, Sequences, FiniteSets, TLC

\* Largest number of frames in a batch handed to _get_eval_frame_data.
MaxFrames == 2
\* Largest number of batches a dataloader yields.
MaxBatches == 3

VARIABLES
    pc,                     \* position of the call in progress
    heap,                   \* [tensors, objs]: the object heap
    frame_data,             \* Optional reference: the batch of this iteration
    frame_data_for_eval,    \* Optional reference: its masked copy
    given,                  \* the batch as the dataloader produced it
    is_multisequence,       \* ImplicitronEvaluator.is_multisequence
    dataloader,             \* the batches the dataloader yields, in order
    all_train_cameras,      \* Optional cameras
    dump_to_json,           \* BOOLEAN
    exp_dir,                \* Optional directory
    epoch,                  \* Optional number
    consumed,               \* number of batches the loop has taken
    model_mode,             \* "train" or "eval"
    model_calls,            \* what model(...) received, one entry per call
    eval_batch_calls,       \* what evaluate.eval_batch received
    per_batch_eval_results, \* the list run accumulates
    results,                \* Optional list: category_result["results"]
    file,                   \* Optional [path, content]: results_test.json
    exception,              \* Optional name of the exception that left run
    returned                \* Optional list: the value run returned

vars == <<pc, heap, frame_data, frame_data_for_eval, given, is_multisequence,
          dataloader, all_train_cameras, dump_to_json, exp_dir, epoch,
          consumed, model_mode, model_calls, eval_batch_calls,
          per_batch_eval_results, results, file, exception, returned>>

None == <<>>
Some(x) == <<x>>
Get(o) == o[1]

-----------------------------------------------------------------------------
(* Float arithmetic on the element values the model uses. *)

Zero == "0.0"
One == "1.0"
Inf == "inf"
NaN == "nan"

\* IEEE-754 product a * b for a, b in {0.0, 1.0, inf, nan}.
Mul(a, b) ==
    IF a = NaN \/ b = NaN THEN NaN
    ELSE IF (a = Inf /\ b = Zero) \/ (a = Zero /\ b = Inf) THEN NaN
    ELSE IF a = Zero \/ b = Zero THEN Zero
    ELSE IF a = Inf \/ b = Inf THEN Inf
    ELSE One

\* value * is_known, is_known of shape (N, 1, 1, 1) broadcast over each frame.
MulBroadcast(value, is_known) ==
    [i \in 1..Len(value) |->
        [j \in 1..Len(value[i]) |-> Mul(value[i][j], is_known[i])]]

\* Shape of a tensor: <<frames, elements per frame>>.
Shape(t) == <<Len(t), IF Len(t) = 0 THEN 0 ELSE Len(t[1])>>

-----------------------------------------------------------------------------
(* Frame types and ds_utils.is_known_frame. *)

\* Frame type strings, character by character.
train_known == <<"t", "r", "a", "i", "n", "_", "k", "n", "o", "w", "n">>
test_known == <<"t", "e", "s", "t", "_", "k", "n", "o", "w", "n">>
dev_known == <<"d", "e", "v", "_", "k", "n", "o", "w", "n">>
test_unseen == <<"t", "e", "s", "t", "_", "u", "n", "s", "e", "e", "n">>

\* DATASET_TYPE_KNOWN = "known"
DATASET_TYPE_KNOWN == <<"k", "n", "o", "w", "n">>

FrameTypes == {train_known, test_unseen}

\* str.endswith(suffix)
endswith(str, suffix) ==
    /\ Len(str) >= Len(suffix)
    /\ SubSeq(str, Len(str) - Len(suffix) + 1, Len(str)) = suffix

\* is_known_frame_scalar(frame_type): frame_type.endswith(DATASET_TYPE_KNOWN)
is_known_frame_scalar(ft) == endswith(ft, DATASET_TYPE_KNOWN)

\* is_known_frame(frame_type).type_as(image_rgb)[:, None, None, None]
is_known_frame(frame_type) ==
    [i \in 1..Len(frame_type) |->
        IF is_known_frame_scalar(frame_type[i]) THEN One ELSE Zero]

-----------------------------------------------------------------------------
(* The heap. *)

MaskedFields == <<"image_rgb", "depth_map", "fg_probability", "mask_crop">>

EmptyHeap == [tensors |-> <<>>, objs |-> <<>>]

\* A new tensor holding data; its reference is LastTensor of the new heap.
NewTensor(H, data) == [H EXCEPT !.tensors = Append(@, data)]
LastTensor(H) == Len(H.tensors)
NewObj(H, fd) == [H EXCEPT !.objs = Append(@, fd)]
LastObj(H) == Len(H.objs)

getattr(H, ref, k) == H.objs[ref][k]
setattr(H, ref, k, v) == [H EXCEPT !.objs[ref][k] = v]

\* The value of a FrameData object: references replaced by tensor contents.
Deref(H, ref) ==
    [k \in DOMAIN H.objs[ref] |->
        IF k \in {"frame_type", "cameras"} THEN H.objs[ref][k]
        ELSE IF H.objs[ref][k] = None THEN None
        ELSE Some(H.tensors[Get(H.objs[ref][k])])]

RECURSIVE StoreFields(_, _, _)
\* Fields MaskedFields[i..] of the batch value b, each put in a tensor of its own.
StoreFields(H, b, i) ==
    IF i > Len(MaskedFields) THEN [heap |-> H, fd |-> b]
    ELSE LET k == MaskedFields[i] IN
         IF b[k] = None THEN StoreFields(H, b, i + 1)
         ELSE LET H1 == NewTensor(H, Get(b[k])) IN
              StoreFields(H1, [b EXCEPT ![k] = Some(LastTensor(H1))], i + 1)

\* The dataloader yields batch value b as a fresh FrameData object.
Load(H, b) ==
    LET r == StoreFields(H, b, 1)
        H1 == NewObj(r.heap, r.fd)
    IN [heap |-> H1, ret |-> LastObj(H1)]

RECURSIVE CopyFields(_, _, _)
\* copy.deepcopy of the tensor attributes MaskedFields[i..] of the object fd.
CopyFields(H, fd, i) ==
    IF i > Len(MaskedFields) THEN [heap |-> H, fd |-> fd]
    ELSE LET k == MaskedFields[i] IN
         IF fd[k] = None THEN CopyFields(H, fd, i + 1)
         ELSE LET H1 == NewTensor(H, H.tensors[Get(fd[k])]) IN
              CopyFields(H1, [fd EXCEPT ![k] = Some(LastTensor(H1))], i + 1)

\* A faulty copy: frame_data_for_eval = frame_data, the same object.
deepcopy_alias(H, ref) == [heap |-> H, ret |-> ref]

\* A faulty copy: a new FrameData built from the tensor attributes only.
deepcopy_tensors_only(H, ref) ==
    LET r == CopyFields(H, H.objs[ref], 1)
        H1 == NewObj(r.heap, [r.fd EXCEPT !.cameras = None])
    IN [heap |-> H1, ret |-> LastObj(H1)]

\* copy.deepcopy(frame_data): a new object with new tensors of equal contents.
deepcopy(H, ref) ==
    LET r == CopyFields(H, H.objs[ref], 1)
        H1 == NewObj(r.heap, r.fd)
    IN [heap |-> H1, ret |-> LastObj(H1)]

-----------------------------------------------------------------------------
(* _get_eval_frame_data *)

\* value[is_known.bool()]: the frames of value whose indicator is 1.
SelectKnown(value, is_known) ==
    LET keep == {i \in 1..Len(value) : is_known[i] = One}
        RECURSIVE Pick(_)
        Pick(i) == IF i > Len(value) THEN <<>>
                   ELSE IF i \in keep THEN <<value[i]>> \o Pick(i + 1)
                   ELSE Pick(i + 1)
    IN Pick(1)

\* A faulty mask that drops the unknown frames instead of zeroing them.
MaskOneSelect(H, copy, k, is_known) ==
    LET value == getattr(H, copy, k) IN
    IF value = None THEN setattr(H, copy, k, None)
    ELSE LET H1 == NewTensor(H, H.tensors[Get(value)])
             H2 == NewTensor(H1, SelectKnown(H1.tensors[LastTensor(H1)], is_known))
         IN setattr(H2, copy, k, Some(LastTensor(H2)))

\* One pass of the loop body for attribute k:
\*   value = getattr(copy, k)
\*   value_masked = value.clone() * is_known if value is not None else None
\*   setattr(copy, k, value_masked)
MaskOne(H, copy, k, is_known) ==
    LET value == getattr(H, copy, k) IN
    IF value = None THEN setattr(H, copy, k, None)
    ELSE LET H1 == NewTensor(H, H.tensors[Get(value)])
             H2 == NewTensor(H1, MulBroadcast(H1.tensors[LastTensor(H1)], is_known))
         IN setattr(H2, copy, k, Some(LastTensor(H2)))

RECURSIVE MaskLoop(_, _, _, _)
MaskLoop(H, copy, is_known, i) ==
    IF i > Len(MaskedFields) THEN H
    ELSE MaskLoop(MaskOne(H, copy, MaskedFields[i], is_known), copy, is_known, i + 1)

\* _get_eval_frame_data(frame_data): [heap, raised, ret].  type_as(None)
\* raises a TypeError when image_rgb is None.
get_eval_frame_data(H, ref) ==
    LET c == deepcopy(H, ref) IN
    IF getattr(c.heap, ref, "image_rgb") = None
    THEN [heap |-> c.heap, raised |-> Some("TypeError"), ret |-> None]
    ELSE LET is_known == is_known_frame(getattr(c.heap, ref, "frame_type"))
         IN [heap |-> MaskLoop(c.heap, c.ret, is_known, 1),
             raised |-> None,
             ret |-> Some(c.ret)]

-----------------------------------------------------------------------------
(* The batches. *)

ImageFrames == {<<One, One>>, <<Zero, One>>}
DepthFrames == {<<One, Inf>>, <<NaN, Zero>>}
ProbFrames == {<<One>>, <<Zero>>}
CropFrames == {<<One>>, <<Zero>>}

OptTensors(F, n) == {None} \cup {Some(t) : t \in [1..n -> F]}

BatchesOf(n) ==
    [frame_type : [1..n -> FrameTypes],
     image_rgb : OptTensors(ImageFrames, n),
     depth_map : OptTensors(DepthFrames, n),
     fg_probability : OptTensors(ProbFrames, n),
     mask_crop : OptTensors(CropFrames, n),
     cameras : {Some(960)}]

\* Every batch _get_eval_frame_data is applied to.
MaskBatches == UNION {BatchesOf(n) : n \in 1..MaxFrames}

-----------------------------------------------------------------------------
(* _get_eval_frame_data on its own: one call on one batch. *)

Idle ==
    /\ is_multisequence = FALSE
    /\ dataloader = <<>>
    /\ all_train_cameras = None
    /\ dump_to_json = FALSE
    /\ exp_dir = None
    /\ epoch = None
    /\ consumed = 0
    /\ model_mode = "train"
    /\ model_calls = <<>>
    /\ eval_batch_calls = <<>>
    /\ per_batch_eval_results = <<>>
    /\ results = None
    /\ file = None
    /\ returned = None

InitMask ==
    /\ pc = "mask_call"
    /\ \E b \in MaskBatches :
          LET l == Load(EmptyHeap, b) IN
          /\ heap = l.heap
          /\ frame_data = Some(l.ret)
          /\ given = Some(b)
    /\ frame_data_for_eval = None
    /\ exception = None
    /\ Idle

MaskCall ==
    /\ pc = "mask_call"
    /\ LET r == get_eval_frame_data(heap, Get(frame_data)) IN
          /\ heap' = r.heap
          /\ frame_data_for_eval' = r.ret
          /\ exception' = r.raised
    /\ pc' = "mask_done"
    /\ UNCHANGED <<frame_data, given, is_multisequence, dataloader,
                   all_train_cameras, dump_to_json, exp_dir, epoch, consumed,
                   model_mode, model_calls, eval_batch_calls,
                   per_batch_eval_results, results, file, returned>>

NextMask == MaskCall

SpecMask == InitMask /\ [][NextMask]_vars

-----------------------------------------------------------------------------
(* The collaborators of run: the model, evaluate.eval_batch and            *)
(* evaluate.summarize_nvs_eval_results.  They are deterministic functions  *)
(* of what they receive.                                                   *)

\* model(**frame_data_for_eval, evaluation_mode=EVALUATION)["implicitron_render"]:
\* the model renders the images it is shown.
model_forward(kwargs) == Get(kwargs.image_rgb)

\* Number of frames of the batch the render reproduces.
Agreement(image, render) ==
    Cardinality({i \in 1..Len(image) : render[i] = image[i]})

\* evaluate.eval_batch(frame_data, implicitron_render, bg_color, lpips_model,
\* source_cameras): one metric and the camera difficulty of the batch, which
\* is measured against source_cameras, or the batch's own cameras for None.
eval_batch(call) ==
    [psnr |-> Agreement(Get(call.frame_data.image_rgb), call.implicitron_render),
     camera_difficulty |->
        IF call.source_cameras = None THEN Get(call.frame_data.cameras)
        ELSE Get(call.source_cameras)]

\* ImplicitronEvaluator.camera_difficulty_bin_breaks = 0.97, 0.98 (per mille)
camera_difficulty_bin_breaks == <<970, 980>>

Bucket(d, breaks) ==
    IF d <= breaks[1] THEN "hard" ELSE IF d <= breaks[2] THEN "medium" ELSE "easy"

\* evaluate.summarize_nvs_eval_results(...)[1]["results"]: one record per
\* camera-difficulty bucket, with the number of batches that fall in it.
\* The metric values of a record are aggregated by arithmetic that is not
\* part of evaluator.py; they are left out of the record, and so is any
\* effect of is_multisequence on the summary.
summarize_nvs_eval_results(rs, multiseq, breaks) ==
    LET subsets == <<"hard", "medium", "easy">>
        Members(s) ==
            {i \in 1..Len(rs) : Bucket(rs[i].camera_difficulty, breaks) = s}
    IN [j \in 1..Len(subsets) |->
          [subset |-> subsets[j],
           n_batches |-> Cardinality(Members(subsets[j]))]]

-----------------------------------------------------------------------------
(* Python numbers: [type, n]; an int or bool is n, a float is n / 2. *)

PyInt(n) == [type |-> "int", n |-> n]
PyFloatHalves(n) == [type |-> "float", n |-> n]

\* A faulty conversion that rounds down.
int_floor(x) == IF x.type = "float" THEN x.n \div 2 ELSE x.n

\* int(x): a float is truncated towards zero.
int(x) ==
    IF x.type = "float"
    THEN (IF x.n >= 0 THEN x.n \div 2 ELSE -((-x.n) \div 2))
    ELSE x.n

-----------------------------------------------------------------------------
(* _dump_to_json *)

SetKey(r, k, v) == (k :> v) @@ r

\* A faulty guard: "if epoch:" skips epoch 0.
tag_results_truthy(e, rs) ==
    IF e /= None /\ Get(e).n /= 0
    THEN [i \in 1..Len(rs) |-> SetKey(rs[i], "eval_epoch", int(Get(e)))]
    ELSE rs

\* if epoch is not None: for r in results: r["eval_epoch"] = int(epoch)
tag_results(e, rs) ==
    IF e /= None
    THEN [i \in 1..Len(rs) |-> SetKey(rs[i], "eval_epoch", int(Get(e)))]
    ELSE rs

\* os.path.join(exp_dir, "results_test.json")
results_path(dir) == <<Get(dir), "results_test.json">>

\* A faulty dump that returns quietly when there is no directory.
dump_to_json_quiet(e, dir, rs, f) ==
    LET tagged == tag_results(e, rs) IN
    IF dir = None
    THEN [results |-> tagged, file |-> f, raised |-> None]
    ELSE [results |-> tagged,
          file |-> Some([path |-> results_path(dir), content |-> tagged]),
          raised |-> None]

\* A faulty dump that checks the directory before it tags the records.
dump_to_json_check_first(e, dir, rs, f) ==
    IF dir = None
    THEN [results |-> rs, file |-> f, raised |-> Some("ValueError")]
    ELSE [results |-> tag_results(e, rs),
          file |-> Some([path |-> results_path(dir),
                         content |-> tag_results(e, rs)]),
          raised |-> None]

\* _dump_to_json(epoch, exp_dir, results): [results, file, raised], f being
\* the file before the call.
dump_to_json_fn(e, dir, rs, f) ==
    LET tagged == tag_results(e, rs) IN
    IF dir = None
    THEN [results |-> tagged, file |-> f, raised |-> Some("ValueError")]
    ELSE [results |-> tagged,
          file |-> Some([path |-> results_path(dir), content |-> tagged]),
          raised |-> None]

-----------------------------------------------------------------------------
(* ImplicitronEvaluator.run *)

\* A faulty choice: the two regimes exchanged.
source_cameras_swapped(multiseq, cams) == IF multiseq THEN cams ELSE None

\* None if self.is_multisequence else all_train_cameras
source_cameras(multiseq, cams) == IF multiseq THEN None ELSE cams

\* The arguments of evaluate.eval_batch.
eval_batch_args(H, orig, copy, render, multiseq, cams) ==
    [frame_data |-> Deref(H, orig),
     implicitron_render |-> render,
     bg_color |-> "black",
     lpips_model |-> "vgg",
     source_cameras |-> source_cameras(multiseq, cams)]

\* The arguments of model(...).
model_args(H, orig, copy) ==
    [frame_data |-> Deref(H, copy), evaluation_mode |-> "EVALUATION"]

\* per_batch_eval_results.append(...)
accumulate(list, r) == Append(list, r)

\* A faulty guard that always dumps.
should_dump_always(flag) == TRUE

\* if dump_to_json:
should_dump(flag) == flag

RunBatches ==
    {[frame_type |-> <<test_known, test_unseen>>,
      image_rgb |-> Some(<< <<One, One>>, <<Zero, One>> >>),
      depth_map |-> Some(<< <<One, Zero>>, <<One, Inf>> >>),
      fg_probability |-> None,
      mask_crop |-> Some(<< <<One>>, <<One>> >>),
      cameras |-> Some(960)],
     [frame_type |-> <<test_unseen>>,
      image_rgb |-> Some(<< <<One, One>> >>),
      depth_map |-> None,
      fg_probability |-> Some(<< <<One>> >>),
      mask_crop |-> None,
      cameras |-> Some(975)],
     [frame_type |-> <<dev_known, train_known>>,
      image_rgb |-> Some(<< <<Zero, One>>, <<One, One>> >>),
      depth_map |-> Some(<< <<NaN, One>>, <<One, Zero>> >>),
      fg_probability |-> Some(<< <<Zero>>, <<One>> >>),
      mask_crop |-> Some(<< <<Zero>>, <<One>> >>),
      cameras |-> Some(990)]}

Dataloaders == UNION {[1..n -> RunBatches] : n \in 0..MaxBatches}

CameraSets == {None, Some(985)}
ExpDirs == {None, Some("exp")}
Epochs == {None, Some(PyInt(0)), Some(PyInt(3)),
           Some(PyFloatHalves(5)), Some(PyFloatHalves(-3))}

Init ==
    /\ pc = "idle"
    /\ heap = EmptyHeap
    /\ frame_data = None
    /\ frame_data_for_eval = None
    /\ given = None
    /\ exception = None
    /\ is_multisequence \in BOOLEAN
    /\ dataloader = <<>>
    /\ all_train_cameras = None
    /\ dump_to_json = FALSE
    /\ exp_dir = None
    /\ epoch = None
    /\ consumed = 0
    /\ model_mode = "train"
    /\ model_calls = <<>>
    /\ eval_batch_calls = <<>>
    /\ per_batch_eval_results = <<>>
    /\ results = None
    /\ file = None
    /\ returned = None

\* Lines 91-97: lpips model, model.eval(), the empty result list.
Enter ==
    /\ pc' = "loop"
    /\ heap' = EmptyHeap
    /\ frame_data' = None
    /\ frame_data_for_eval' = None
    /\ given' = None
    /\ consumed' = 0
    /\ model_mode' = "eval"
    /\ model_calls' = <<>>
    /\ eval_batch_calls' = <<>>
    /\ per_batch_eval_results' = <<>>
    /\ results' = None
    /\ returned' = None
    /\ exception' = None
    /\ UNCHANGED <<is_multisequence, file>>

\* run(model, dataloader, all_train_cameras, device, dump_to_json, exp_dir, epoch)
RunCall ==
    /\ pc = "idle"
    /\ dataloader' \in Dataloaders
    /\ all_train_cameras' \in CameraSets
    /\ dump_to_json' \in BOOLEAN
    /\ exp_dir' \in ExpDirs
    /\ epoch' \in Epochs
    /\ Enter

\* Lines 98-122: one iteration of the loop over the dataloader.
RunBatch ==
    /\ pc = "loop"
    /\ consumed < Len(dataloader)
    /\ LET b == dataloader[consumed + 1]
           l == Load(EmptyHeap, b)
           m == get_eval_frame_data(l.heap, l.ret)
       IN /\ consumed' = consumed + 1
          /\ given' = Some(b)
          /\ heap' = m.heap
          /\ frame_data' = Some(l.ret)
          /\ frame_data_for_eval' = m.ret
          /\ IF m.raised /= None
             THEN /\ pc' = "raised"
                  /\ exception' = m.raised
                  /\ UNCHANGED <<model_calls, eval_batch_calls,
                                 per_batch_eval_results>>
             ELSE LET margs == model_args(m.heap, l.ret, Get(m.ret))
                      implicitron_render == model_forward(margs.frame_data)
                      eargs == eval_batch_args(m.heap, l.ret, Get(m.ret),
                                               implicitron_render,
                                               is_multisequence,
                                               all_train_cameras)
                  IN /\ pc' = "loop"
                     /\ exception' = None
                     /\ model_calls' = Append(model_calls, margs)
                     /\ eval_batch_calls' = Append(eval_batch_calls, eargs)
                     /\ per_batch_eval_results' =
                           accumulate(per_batch_eval_results, eval_batch(eargs))
    /\ UNCHANGED <<is_multisequence, dataloader, all_train_cameras,
                   dump_to_json, exp_dir, epoch, model_mode, results, file,
                   returned>>

\* Lines 124-132: the dataloader is exhausted; summarize and print.
RunSummarize ==
    /\ pc = "loop"
    /\ consumed = Len(dataloader)
    /\ results' = Some(summarize_nvs_eval_results(per_batch_eval_results,
                                                  is_multisequence,
                                                  camera_difficulty_bin_breaks))
    /\ pc' = IF should_dump(dump_to_json) THEN "dump" ELSE "return"
    /\ UNCHANGED <<heap, frame_data, frame_data_for_eval, given,
                   is_multisequence, dataloader, all_train_cameras,
                   dump_to_json, exp_dir, epoch, consumed, model_mode,
                   model_calls, eval_batch_calls, per_batch_eval_results,
                   file, exception, returned>>

\* Line 133: _dump_to_json(epoch, exp_dir, results)
RunDump ==
    /\ pc = "dump"
    /\ LET d == dump_to_json_fn(epoch, exp_dir, Get(results), file) IN
          /\ results' = Some(d.results)
          /\ file' = d.file
          /\ exception' = d.raised
          /\ pc' = IF d.raised /= None THEN "raised" ELSE "return"
    /\ UNCHANGED <<heap, frame_data, frame_data_for_eval, given,
                   is_multisequence, dataloader, all_train_cameras,
                   dump_to_json, exp_dir, epoch, consumed, model_mode,
                   model_calls, eval_batch_calls, per_batch_eval_results,
                   returned>>

\* Line 135: return category_result["results"]
RunReturn ==
    /\ pc = "return"
    /\ returned' = results
    /\ pc' = "done"
    /\ UNCHANGED <<heap, frame_data, frame_data_for_eval, given,
                   is_multisequence, dataloader, all_train_cameras,
                   dump_to_json, exp_dir, epoch, consumed, model_mode,
                   model_calls, eval_batch_calls, per_batch_eval_results,
                   results, file, exception>>

Next ==
    \/ RunCall
    \/ RunBatch
    \/ RunSummarize
    \/ RunDump
    \/ RunReturn

Spec == Init /\ [][Next]_vars

\* Both: a call of run, or a call of _get_eval_frame_data on its own.
InitAll == Init \/ InitMask

NextAll == Next \/ NextMask

SpecAll == InitAll /\ [][NextAll]_vars

-----------------------------------------------------------------------------
(* Properties. *)

\* The masked copy as a value, after a call of _get_eval_frame_data returned.
Masked == Deref(heap, Get(frame_data_for_eval))
Original == Get(given)
MaskReturned == pc = "mask_done" /\ exception = None
Frames(b) == 1..Len(b.frame_type)
\* Frame i of batch b is not marked known: its type does not end in "known".
Unknown(b, i) ==
    LET s == b.frame_type[i]
        n == Len(s)
    IN ~(/\ n >= 5
         /\ s[n - 4] = "k" /\ s[n - 3] = "n" /\ s[n - 2] = "o"
         /\ s[n - 1] = "w" /\ s[n] = "n")
AllZero(frame) == \A j \in 1..Len(frame) : frame[j] = Zero
FieldSet == {MaskedFields[i] : i \in 1..Len(MaskedFields)}

\* C1: in the masked copy every present masked field is exactly zero on each
\* unknown frame and equal to the input on each known frame.
C1_UnknownZeroKnownKept ==
    MaskReturned =>
        \A k \in FieldSet : \A i \in Frames(Original) :
            Original[k] /= None =>
                IF Unknown(Original, i)
                THEN AllZero(Get(Masked[k])[i])
                ELSE Get(Masked[k])[i] = Get(Original[k])[i]

\* C2: a call with dump_to_json=True and exp_dir=None never returns, and the
\* exception that ends it is the ValueError.
C2_DumpWithoutDirRaises ==
    (pc /= "idle" /\ dump_to_json /\ exp_dir = None) =>
        /\ pc \in {"loop", "dump", "raised"}
        /\ returned = None
        /\ (pc = "raised" <=> exception = Some("ValueError"))

C2_Witness ==
    /\ pc = "raised"
    /\ exception = Some("ValueError")
    /\ dump_to_json
    /\ exp_dir = None
    /\ dataloader = <<>>
    /\ epoch = Some(PyFloatHalves(5))

\* v is the number x cut to an integer towards zero.
TruncatedTo(x, v) ==
    IF x.type = "float"
    THEN IF x.n >= 0 THEN 2 * v <= x.n /\ x.n < 2 * v + 2
         ELSE 2 * v - 2 < x.n /\ x.n <= 2 * v
    ELSE v = x.n

HasEpoch(r) == "eval_epoch" \in DOMAIN r

\* C3: after a dump with an epoch every record of results_test.json has
\* eval_epoch = int(epoch); with epoch None the dump adds the field to no
\* record.
C3_EvalEpochInFile ==
    (dump_to_json /\ pc \in {"return", "done", "raised"}) =>
        /\ (exp_dir /= None /\ epoch /= None) =>
              /\ file /= None
              /\ \A i \in 1..Len(Get(file).content) :
                    /\ HasEpoch(Get(file).content[i])
                    /\ TruncatedTo(Get(epoch), Get(file).content[i].eval_epoch)
        /\ (epoch = None) =>
              /\ \A i \in 1..Len(Get(results)) : ~HasEpoch(Get(results)[i])
              /\ file /= None =>
                    \A i \in 1..Len(Get(file).content) :
                        ~HasEpoch(Get(file).content[i])

C3_Witness ==
    /\ pc = "done"
    /\ dump_to_json
    /\ epoch = Some(PyFloatHalves(-3))
    /\ file /= None
    /\ Get(file).path = <<"exp", "results_test.json">>
    /\ Len(Get(file).content) = 3
    /\ Get(file).content[1].eval_epoch = -1

\* C4: the fields of the masked copy other than the four masked ones are
\* equal to those of the input.
C4_OtherFieldsEqual ==
    MaskReturned =>
        \A k \in (DOMAIN Original) \ FieldSet : Masked[k] = Original[k]

C4_Witness ==
    /\ MaskReturned
    /\ \E i \in Frames(Original) : Unknown(Original, i)
    /\ Masked.image_rgb /= Original.image_rgb
    /\ Masked.frame_type = Original.frame_type
    /\ Masked.cameras = Original.cameras

\* C6 as stated: the source cameras are all_train_cameras exactly when
\* is_multisequence is False and None exactly when it is True.
C6_Original ==
    \A i \in 1..Len(eval_batch_calls) :
        /\ (eval_batch_calls[i].source_cameras = all_train_cameras)
              <=> ~is_multisequence
        /\ (eval_batch_calls[i].source_cameras = None) <=> is_multisequence
        /\ eval_batch_calls[i].bg_color = "black"

\* C6 amended: the source cameras are all_train_cameras (None included) when
\* is_multisequence is False and None when it is True; the two "exactly
\* when" hold whenever all_train_cameras is not None; bg_color is "black".
C6_SourceCameras ==
    \A i \in 1..Len(eval_batch_calls) :
        LET sc == eval_batch_calls[i].source_cameras IN
        /\ ~is_multisequence => sc = all_train_cameras
        /\ is_multisequence => sc = None
        /\ all_train_cameras /= None =>
              /\ (sc = all_train_cameras) <=> ~is_multisequence
              /\ (sc = None) <=> is_multisequence
        /\ \A j \in 1..Len(eval_batch_calls) :
              eval_batch_calls[j].source_cameras = sc
        /\ eval_batch_calls[i].bg_color = "black"

C6_Witness ==
    /\ Len(eval_batch_calls) = 2
    /\ ~is_multisequence
    /\ all_train_cameras /= None
    /\ eval_batch_calls[2].source_cameras = all_train_cameras
    /\ eval_batch_calls[2].bg_color = "black"

\* C7: a call whose image_rgb is present returns; a masked field is None in
\* the copy exactly if it is None in the input, and a present one keeps its
\* shape.
C7_NonePreserved ==
    pc = "mask_done" =>
        /\ Original.image_rgb /= None => exception = None
        /\ exception = None =>
              \A k \in FieldSet :
                  /\ (Masked[k] = None) <=> (Original[k] = None)
                  /\ Original[k] /= None =>
                        Shape(Get(Masked[k])) = Shape(Get(Original[k]))

C7_Witness ==
    /\ MaskReturned
    /\ Original.depth_map = None
    /\ Original.fg_probability = None
    /\ Original.mask_crop /= None
    /\ Masked.depth_map = None
    /\ Masked.fg_probability = None
    /\ Shape(Get(Masked.mask_crop)) = <<2, 1>>
    /\ \E i \in Frames(Original) : Unknown(Original, i)

\* C8: with dump_to_json=False no file is written, no exception leaves run
\* and no record gets an eval_epoch field.
C8_NoDumpNoEffect ==
    (pc /= "idle" /\ ~dump_to_json) =>
        /\ file = None
        /\ exception = None
        /\ pc \in {"loop", "return", "done"}
        /\ results /= None =>
              \A i \in 1..Len(Get(results)) : ~HasEpoch(Get(results)[i])
        /\ returned /= None =>
              \A i \in 1..Len(Get(returned)) : ~HasEpoch(Get(returned)[i])

C8_Witness ==
    /\ pc = "done"
    /\ ~dump_to_json
    /\ exp_dir = None
    /\ epoch = Some(PyInt(3))
    /\ returned /= None
    /\ Len(Get(returned)) > 0
    /\ file = None

\* C9: after _get_eval_frame_data the input batch is what it was and the
\* copy is another object; in run the model gets the masked copy and
\* eval_batch gets the batch as the dataloader produced it.
C9_InputUntouched ==
    /\ (frame_data_for_eval /= None) =>
          /\ frame_data_for_eval /= frame_data
          /\ Deref(heap, Get(frame_data)) = Original
    /\ (pc = "loop" /\ consumed > 0) =>
          model_calls[consumed].frame_data = Masked
    /\ \A i \in 1..Len(eval_batch_calls) :
          /\ eval_batch_calls[i].frame_data = dataloader[i]
          /\ model_calls[i].frame_data.frame_type = dataloader[i].frame_type
          /\ \A j \in Frames(dataloader[i]) :
                Unknown(dataloader[i], j) =>
                    AllZero(Get(model_calls[i].frame_data.image_rgb)[j])

C9_Witness ==
    /\ pc = "loop"
    /\ consumed = 1
    /\ Len(Original.frame_type) = 2
    /\ Unknown(Original, 2)
    /\ Get(Original.image_rgb)[2] = <<Zero, One>>
    /\ Get(eval_batch_calls[1].frame_data.image_rgb)[2] = <<Zero, One>>
    /\ Get(model_calls[1].frame_data.image_rgb)[2] = <<Zero, Zero>>
    /\ Deref(heap, Get(frame_data)) = Original

\* C10: when the ValueError leaves run, every batch has been evaluated, the
\* results are summarized and (with an epoch) tagged, and no file exists.
C10_RaisedLate ==
    (pc = "raised" /\ exception = Some("ValueError")) =>
        /\ dump_to_json /\ exp_dir = None
        /\ consumed = Len(dataloader)
        /\ Len(model_calls) = Len(dataloader)
        /\ Len(eval_batch_calls) = Len(dataloader)
        /\ Len(per_batch_eval_results) = Len(dataloader)
        /\ results /= None
        /\ epoch /= None =>
              \A i \in 1..Len(Get(results)) :
                  /\ HasEpoch(Get(results)[i])
                  /\ TruncatedTo(Get(epoch), Get(results)[i].eval_epoch)
        /\ file = None

C10_Witness ==
    /\ pc = "raised"
    /\ exception = Some("ValueError")
    /\ Len(dataloader) = 2
    /\ Len(eval_batch_calls) = 2
    /\ epoch = Some(PyInt(3))
    /\ Get(results)[1].eval_epoch = 3
    /\ file = None

====
